---- MODULE Spec2Model ----
(***************************************************************************)
(* A model of the FANGS version control core (src/fangs/core.py).          *)
(*                                                                         *)
(* The state is the on-disk repository plus the working tree:              *)
(*   wt       working-tree files outside the metadata directory            *)
(*   index    the file fangs/index (NoIndex when the file is absent)       *)
(*   objects  the files under fangs/objects, keyed by the id in their path *)
(*   refs     the files fangs/HEAD and fangs/refs/heads/<b>, by name       *)
(*   clock    the wall clock read by datetime.now()                        *)
(*   result   what the last call returned or raised                        *)
(*   tB, tC, tO, order, merged                                             *)
(*            the inputs of the three-way merge loop (the three trees and  *)
(*            the order in which all_files is iterated) and what the loop  *)
(*            left; used by SpecMerge, constant under Spec                 *)
(*   pc, job, temp                                                         *)
(*            a call followed statement by statement: the statement the    *)
(*            process is at ("idle" between calls, "killed" when it was    *)
(*            killed inside one), the call's locals, and the file          *)
(*            fangs/index.temp (NoIndex when absent); used by SpecSteps,   *)
(*            SpecWrites and SpecBase                                      *)
(*                                                                         *)
(* Specifications:                                                         *)
(*   Spec        the commands that change the repository, one call a step  *)
(*   SpecAll     Spec and status                                           *)
(*   SpecMerge   the three-way merge on drawn trees                        *)
(*   SpecSteps   add, one statement a step, with kills                     *)
(*   SpecWrites  commit and the merge paths, one write a step, with kills  *)
(*   SpecBase    find_merge_base on drawn histories                        *)
(*                                                                         *)
(* Byte strings are tagged tuples: <<"raw", bytes>> for file contents,     *)
(* <<"json", value>> for the text json.dumps produces, <<"conflict", ..>>  *)
(* for the text create_conflict_file formats.  A JSON object (a Python     *)
(* dict, which keeps insertion order) is a sequence of <<key, value>>      *)
(* pairs with unique keys.  SHA-1 is modelled as an injective tagging of   *)
(* the hashed bytes.  A path is the sequence of its whitespace-separated   *)
(* words: <<"a">> is the file "a", <<"b", "c">> is the file "b c".         *)
(***************************************************************************)
EXTENDS Integers, Sequences, FiniteSets, TLC

VARIABLES wt, index, objects, refs, clock, result,
          tB, tC, tO, order, merged,
          pc, job, temp

vars == <<wt, index, objects, refs, clock, result, tB, tC, tO, order, merged, pc, job, temp>>

mergeVars == <<tB, tC, tO, order, merged>>

stepVars == <<pc, job, temp>>

\* ---------------------------------------------------------------- bounds

\* Commits (calls of datetime.now()) a behaviour may make.
MaxCommits == 2

\* Rows the index file may hold.
MaxIndexLen == 2

\* Objects the store may hold after a status.
MaxObjects == 4

\* The clock value past which no commit or merge is started (SpecWrites).
MaxClock == 4

\* Commits from the root to the fork, and from the fork to each of the two
\* tips (SpecBase).
MaxPrefix == 2

MaxTail == 2

\* ------------------------------------------------------------ input sets

Paths == { <<"a">>, <<"b", "c">> }

Contents == { <<"raw", <<1>> >>, <<"raw", <<2>> >> }

Branches == { "master", "feat" }

Messages == { "", "m" }

\* ----------------------------------------------------------- Python values

None == <<"None">>

NoIndex == <<"NoIndex">>

Ok(v) == <<"ok", v>>

Raise(kind) == <<"raise", kind>>

IsRaise(r) == r[1] = "raise"

EmptyMap == [x \in {} |-> None]

\* dict.get(k): the value of key k, None when the key is absent.
DictGet(d, k) ==
  IF \E i \in 1..Len(d) : d[i][1] = k
  THEN d[CHOOSE i \in 1..Len(d) : d[i][1] = k][2]
  ELSE None

\* d[k] = v: the value is replaced in place, a new key goes last.
DictSet(d, k, v) ==
  IF \E i \in 1..Len(d) : d[i][1] = k
  THEN [i \in 1..Len(d) |-> IF d[i][1] = k THEN <<k, v>> ELSE d[i]]
  ELSE Append(d, <<k, v>>)

DictKeys(d) == { d[i][1] : i \in 1..Len(d) }

json_dumps(v) == <<"json", v>>

json_loads(text) == text[2]

\* len(data).  The byte count of a JSON or conflict text is abstracted to a
\* count of its parts; read_object parses the size and never uses it.
ByteLen(data) ==
  IF data[1] = "conflict" THEN 3 + Len(data[2][2]) + Len(data[3][2])
  ELSE Len(data[2])

\* ---------------------------------------------------------- object store

sha1(full_data) == <<"sha1", full_data>>

\* f'{obj_type}{len(data)}\0': the header as header.split() sees it, a
\* sequence of words.  Type and length are written with nothing between
\* them, so they form ONE word.
Header(obj_type, n) == << <<obj_type, n>> >>

FullData(data, obj_type) == << Header(obj_type, ByteLen(data)), data >>

\* hash_object writing the data without its header under the id of the
\* data with its header.
hash_object_no_header(objs, data, obj_type) ==
  LET full_data == FullData(data, obj_type)
      id        == sha1(full_data)
  IN  [ sha1    |-> id,
        objects |-> IF id \in DOMAIN objs THEN objs
                    ELSE (id :> <<Header("", 0), data>>) @@ objs ]

hash_object(objs, data, obj_type) ==
  LET full_data == FullData(data, obj_type)
      id        == sha1(full_data)
  IN  [ sha1    |-> id,
        objects |-> IF id \in DOMAIN objs THEN objs
                    ELSE (id :> full_data) @@ objs ]

read_object(objs, sha, expected_type) ==
  IF sha = None THEN Raise("TypeError")
  ELSE IF sha \notin DOMAIN objs THEN Raise("FileNotFoundError")
  ELSE
    LET obj    == objs[sha]
        words  == obj[1]
        content == obj[2]
    IN  IF Len(words) # 2 THEN Raise("ValueError")
        ELSE IF words[1] # <<expected_type>> THEN Raise("ValueError")
        ELSE IF expected_type \in {"tree", "commit"} THEN Ok(json_loads(content))
        ELSE IF expected_type = "blob" THEN Ok(content)
        ELSE Raise("ValueError")

\* ------------------------------------------------------------- references

HEAD == <<"HEAD">>

BranchRef(name) == <<"refs", "heads", name>>

SymRef(target) == <<"ref:", target>>

IsSymbolic(content) == content[1] = "ref:"

RECURSIVE get_ref(_, _)
get_ref(rs, ref) ==
  IF ref \in DOMAIN rs
  THEN IF IsSymbolic(rs[ref]) THEN get_ref(rs, rs[ref][2]) ELSE rs[ref]
  ELSE None

get_head_commit(rs) == get_ref(rs, HEAD)

update_ref(rs, ref, sha) == (ref :> sha) @@ rs

\* The branch name HEAD holds, as the one-word text <<name>>, or None.
get_current_branch(rs) ==
  IF HEAD \in DOMAIN rs /\ IsSymbolic(rs[HEAD])
     /\ Len(rs[HEAD][2]) = 3 /\ SubSeq(rs[HEAD][2], 1, 2) = <<"refs", "heads">>
  THEN <<rs[HEAD][2][3]>>
  ELSE None

\* ------------------------------------------------------------------ index

\* An index row is <<sha1, path>>: the line f'{sha1} {path}'.
\* line.split()[1]: the second whitespace-separated word of the line, which
\* is the FIRST word of the path.
SecondWord(row) == row[2][1]

\* line.split()[1] == relative_path
RowMatches(row, relative_path) == <<SecondWord(row)>> = relative_path

\* The rewrite of the index in add: lines 161-173.
RewriteIndex(idx, sha, relative_path) ==
  LET entry   == <<sha, relative_path>>
      updated == \E i \in 1..Len(idx) : RowMatches(idx[i], relative_path)
      kept    == [i \in 1..Len(idx) |->
                    IF RowMatches(idx[i], relative_path) THEN entry ELSE idx[i]]
  IN  IF updated THEN kept ELSE Append(kept, entry)

\* The dict commit builds from the index: lines 208-212.
RECURSIVE TreeOfIndex(_)
TreeOfIndex(idx) ==
  IF idx = <<>> THEN <<>>
  ELSE LET n == Len(idx)
       IN  DictSet(TreeOfIndex(SubSeq(idx, 1, n - 1)), idx[n][2], idx[n][1])

\* commit_objects computing the commit id without writing the commit object:
\* the write is left for after the reference update.
commit_objects_late(objs, tree, parent, now, message) ==
  LET t           == hash_object(objs, json_dumps(tree), "tree")
      commit_data == << <<"tree", t.sha1>>,
                        <<"parent", parent>>,
                        <<"author", "Simple Fangs User <user@example.com>">>,
                        <<"timestamp", now>>,
                        <<"message", message>> >>
  IN  [ sha1    |-> hash_object(t.objects, json_dumps(commit_data), "commit").sha1,
        objects |-> t.objects ]

\* The objects commit stores for a snapshot: lines 214-227.
commit_objects(objs, tree, parent, now, message) ==
  LET t           == hash_object(objs, json_dumps(tree), "tree")
      commit_data == << <<"tree", t.sha1>>,
                        <<"parent", parent>>,
                        <<"author", "Simple Fangs User <user@example.com>">>,
                        <<"timestamp", now>>,
                        <<"message", message>> >>
  IN  hash_object(t.objects, json_dumps(commit_data), "commit")

\* ------------------------------------------------------------ history

\* The loop of get_commit_chain, newest first; Raise when a commit cannot
\* be read.  A merge commit has no 'parent' key, so the walk ends at it.
RECURSIVE CommitWalk(_, _)
CommitWalk(objs, current) ==
  IF current = None THEN Ok(<<>>)
  ELSE LET r == read_object(objs, current, "commit")
       IN  IF IsRaise(r) THEN r
           ELSE LET rest == CommitWalk(objs, DictGet(r[2], "parent"))
                IN  IF IsRaise(rest) THEN rest
                    ELSE Ok(<<current>> \o rest[2])

Reversed(s) == [i \in 1..Len(s) |-> s[Len(s) + 1 - i]]

\* list(reversed(chain)): oldest first.
get_commit_chain(objs, commit) ==
  LET w == CommitWalk(objs, commit)
  IN  IF IsRaise(w) THEN w ELSE Ok(Reversed(w[2]))

InChain(chain, c) == \E i \in 1..Len(chain) : chain[i] = c

\* The first commit of chain1 (oldest first) that is in chain2, else None.
find_merge_base(objs, commit1, commit2) ==
  LET chain1 == get_commit_chain(objs, commit1)
      chain2 == get_commit_chain(objs, commit2)
  IN  IF IsRaise(chain1) THEN chain1
      ELSE IF IsRaise(chain2) THEN chain2
      ELSE LET common == { i \in 1..Len(chain1[2]) : InChain(chain2[2], chain1[2][i]) }
           IN  IF common = {} THEN Ok(None)
               ELSE Ok(chain1[2][CHOOSE i \in common : \A j \in common : i <= j])

get_tree(objs, commit_sha) ==
  LET c == read_object(objs, commit_sha, "commit")
  IN  IF IsRaise(c) THEN c
      ELSE read_object(objs, DictGet(c[2], "tree"), "tree")

\* ------------------------------------------------------ working directory

\* A repository state as the operations pass it along.
State(w, i, o, r, c) == [wt |-> w, index |-> i, objects |-> o, refs |-> r, clock |-> c]

Here == State(wt, index, objects, refs, clock)

\* What an operation leaves: the state, how it ended, what it returned.
Done(st, out, val) == [st |-> st, out |-> out, val |-> val]

\* The second loop of update_working_directory: each file is opened for
\* writing (created empty) before its blob is read.
RECURSIVE WriteTree(_, _, _, _)
WriteTree(w, objs, tree, i) ==
  IF i > Len(tree) THEN [wt |-> w, out |-> "ok"]
  ELSE LET path == tree[i][1]
           r    == read_object(objs, tree[i][2], "blob")
       IN  IF IsRaise(r)
           THEN [wt |-> (path :> <<"raw", <<>> >>) @@ w, out |-> r[2]]
           ELSE WriteTree((path :> r[2]) @@ w, objs, tree, i + 1)

\* update_working_directory.  The walk starts at repo_path and skips a
\* directory named '.fangs'; the metadata directory is repo_path/fangs, so
\* the first loop removes it with everything else: HEAD, the refs, the index
\* and the objects.  An OSError (FileNotFoundError is one) is printed and
\* swallowed; any other exception leaves the function.
update_working_directory(st, tree) ==
  LET w == WriteTree(EmptyMap, EmptyMap, tree, 1)
  IN  Done(State(w.wt, NoIndex, EmptyMap, EmptyMap, st.clock),
           IF w.out \in {"ok", "FileNotFoundError"} THEN "ok" ELSE w.out,
           None)

\* -------------------------------------------------------------- checkout

\* Exceptions the 'except OSError' clauses catch.
IsOSError(kind) == kind \in {"FileNotFoundError", "OSError"}

checkout(st, branch_name) ==
  LET branch_ref == BranchRef(branch_name)
  IN  IF branch_ref \notin DOMAIN st.refs
      THEN Done(st, "no such branch", None)
      ELSE
        LET refs1  == update_ref(st.refs, HEAD, SymRef(branch_ref))
            st1    == [st EXCEPT !.refs = refs1]
            tree   == get_tree(st1.objects, get_ref(refs1, branch_ref))
        IN  IF IsRaise(tree)
            THEN Done(st1, IF IsOSError(tree[2]) THEN "error printed" ELSE tree[2], None)
            ELSE LET u == update_working_directory(st1, tree[2])
                 IN  Done(u.st, IF u.out = "ok" THEN "switched" ELSE u.out, None)

\* ----------------------------------------------------------------- merge

\* The text create_conflict_file formats and stores: lines 753-760.
create_conflict_file(objs, file, base_sha, current_sha, other_sha, branch_name) ==
  LET cur == IF current_sha # None THEN read_object(objs, current_sha, "blob")
             ELSE Ok(<<"raw", <<>> >>)
      oth == IF other_sha # None THEN read_object(objs, other_sha, "blob")
             ELSE Ok(<<"raw", <<>> >>)
  IN  IF IsRaise(cur) THEN cur
      ELSE IF IsRaise(oth) THEN oth
      ELSE Ok(hash_object(objs, <<"conflict", cur[2], oth[2], branch_name>>, "blob"))

\* merge_entry with the 'unchanged on current' case keeping the current side.
merge_entry_keeps_current(base_sha, current_sha, other_sha) ==
  IF current_sha = other_sha
  THEN IF current_sha # None THEN <<"set", current_sha>> ELSE <<"skip">>
  ELSE IF current_sha = base_sha THEN <<"set", current_sha>>
  ELSE IF other_sha = base_sha THEN <<"set", current_sha>>
  ELSE <<"conflict">>

\* What the loop body of three_way_merge decides for one file: lines 659-672.
merge_entry(base_sha, current_sha, other_sha) ==
  IF current_sha = other_sha
  THEN IF current_sha # None THEN <<"set", current_sha>> ELSE <<"skip">>
  ELSE IF current_sha = base_sha THEN <<"set", other_sha>>
  ELSE IF other_sha = base_sha THEN <<"set", current_sha>>
  ELSE <<"conflict">>

\* The loop of three_way_merge over all_files, visited in the order files:
\* lines 653-672.  acc is [tree, conflicts, objects].
RECURSIVE MergeLoop(_, _, _, _, _, _, _)
MergeLoop(acc, files, i, base_tree, current_tree, other_tree, branch_name) ==
  IF i > Len(files) THEN Ok(acc)
  ELSE
    LET file == files[i]
        b    == DictGet(base_tree, file)
        c    == DictGet(current_tree, file)
        o    == DictGet(other_tree, file)
        e    == merge_entry(b, c, o)
    IN  IF e[1] = "skip"
        THEN MergeLoop(acc, files, i + 1, base_tree, current_tree, other_tree, branch_name)
        ELSE IF e[1] = "set"
        THEN MergeLoop([acc EXCEPT !.tree = DictSet(acc.tree, file, e[2])],
                       files, i + 1, base_tree, current_tree, other_tree, branch_name)
        ELSE LET f == create_conflict_file(acc.objects, file, b, c, o, branch_name)
             IN  IF IsRaise(f) THEN f
                 ELSE MergeLoop([tree      |-> DictSet(acc.tree, file, f[2].sha1),
                                 conflicts |-> Append(acc.conflicts, file),
                                 objects   |-> f[2].objects],
                                files, i + 1, base_tree, current_tree, other_tree,
                                branch_name)

\* create_merge_commit: lines 704-721.
create_merge_commit(st, current_commit, other_commit, merged_tree, branch_name) ==
  LET t    == hash_object(st.objects, json_dumps(merged_tree), "tree")
      data == << <<"tree", t.sha1>>,
                 <<"parents", <<current_commit, other_commit>> >>,
                 <<"author", "Simple Fangs User <user@example.com>">>,
                 <<"timestamp", st.clock>>,
                 <<"message", <<"Merge branch", branch_name>> >> >>
      c    == hash_object(t.objects, json_dumps(data), "commit")
      st1  == [st EXCEPT !.objects = c.objects,
                         !.refs = update_ref(st.refs, HEAD, c.sha1),
                         !.clock = st.clock + 1]
      u    == update_working_directory(st1, merged_tree)
  IN  Done(u.st, IF u.out = "ok" THEN "merged" ELSE u.out, c.sha1)

\* handle_merge_conflicts: lines 687-692.
handle_merge_conflicts(st, conflicts, merged_tree) ==
  LET u == update_working_directory(st, merged_tree)
  IN  Done(u.st, IF u.out = "ok" THEN "conflicts" ELSE u.out, conflicts)

\* all_files in the order the set is iterated: the files of the three trees,
\* in the order pref lists them.
AllFiles(pref, base_tree, current_tree, other_tree) ==
  LET InTrees(f) == f \in DictKeys(base_tree) \cup DictKeys(current_tree)
                            \cup DictKeys(other_tree)
  IN  SelectSeq(pref, InTrees)

\* merged_tree and conflicts as the loop leaves them, or what it raised.
merge_loop(objs, base_tree, current_tree, other_tree, branch_name, pref) ==
  MergeLoop([tree |-> <<>>, conflicts |-> <<>>, objects |-> objs],
            AllFiles(pref, base_tree, current_tree, other_tree), 1,
            base_tree, current_tree, other_tree, branch_name)

\* three_way_merge from the point where the three trees are in hand:
\* lines 647-677.
merge_trees(st, current_commit, other_commit, base_tree, current_tree, other_tree, branch_name, pref) ==
  LET m == merge_loop(st.objects, base_tree, current_tree, other_tree, branch_name, pref)
  IN  IF IsRaise(m) THEN Done(st, m[2], None)
      ELSE LET st1 == [st EXCEPT !.objects = m[2].objects]
           IN  IF m[2].conflicts # <<>>
               THEN handle_merge_conflicts(st1, m[2].conflicts, m[2].tree)
               ELSE create_merge_commit(st1, current_commit, other_commit,
                                        m[2].tree, branch_name)

three_way_merge(st, current_commit, other_commit, base_commit, branch_name, pref) ==
  LET base_tree    == get_tree(st.objects, base_commit)
      current_tree == get_tree(st.objects, current_commit)
      other_tree   == get_tree(st.objects, other_commit)
  IN  IF IsRaise(base_tree) THEN Done(st, base_tree[2], None)
      ELSE IF IsRaise(current_tree) THEN Done(st, current_tree[2], None)
      ELSE IF IsRaise(other_tree) THEN Done(st, other_tree[2], None)
      ELSE merge_trees(st, current_commit, other_commit, base_tree[2],
                       current_tree[2], other_tree[2], branch_name, pref)

fast_forward_merge(st, target_commit, branch_name) ==
  LET st1  == [st EXCEPT !.refs = update_ref(st.refs, HEAD, target_commit)]
      tree == get_tree(st1.objects, target_commit)
  IN  IF IsRaise(tree) THEN Done(st1, tree[2], None)
      ELSE LET u == update_working_directory(st1, tree[2])
           IN  Done(u.st, IF u.out = "ok" THEN "fast-forward" ELSE u.out, None)

\* The orders in which a set of files can be iterated.
Orders(S) ==
  { f \in [1..Cardinality(S) -> S] : \A i, j \in 1..Cardinality(S) : i # j => f[i] # f[j] }

\* The two ValueErrors merge raises itself: lines 552 and 559.
NotOnBranch == "ValueError: Not currently on any branch"

NoSuchBranch == "ValueError: Branch does not exist"

\* merge without the test that HEAD names a branch.
merge_any_head(st, branch_name, pref) ==
  LET current_commit == get_head_commit(st.refs)
      other_commit   == get_ref(st.refs, BranchRef(branch_name))
  IN  IF other_commit = None THEN Done(st, NoSuchBranch, None)
      ELSE
        LET base == find_merge_base(st.objects, current_commit, other_commit)
        IN  IF IsRaise(base) THEN Done(st, base[2], None)
            ELSE IF base[2] = other_commit THEN Done(st, "up-to-date", None)
            ELSE IF base[2] = current_commit
            THEN fast_forward_merge(st, other_commit, branch_name)
            ELSE three_way_merge(st, current_commit, other_commit, base[2],
                                 branch_name, pref)

merge(st, branch_name, pref) ==
  LET current_branch == get_current_branch(st.refs)
      current_commit == get_head_commit(st.refs)
      other_commit   == get_ref(st.refs, BranchRef(branch_name))
  IN  IF current_branch = None THEN Done(st, NotOnBranch, None)
      ELSE IF other_commit = None THEN Done(st, NoSuchBranch, None)
      ELSE
        LET base == find_merge_base(st.objects, current_commit, other_commit)
        IN  IF IsRaise(base) THEN Done(st, base[2], None)
            ELSE IF base[2] = other_commit THEN Done(st, "up-to-date", None)
            ELSE IF base[2] = current_commit
            THEN fast_forward_merge(st, other_commit, branch_name)
            ELSE three_way_merge(st, current_commit, other_commit, base[2],
                                 branch_name, pref)

\* ------------------------------------------------------ add, commit, branch

add(st, file_path) ==
  IF file_path \notin DOMAIN st.wt THEN Done(st, "FileNotFoundError", None)
  ELSE LET h   == hash_object(st.objects, st.wt[file_path], "blob")
           st1 == [st EXCEPT !.objects = h.objects]
       IN  IF st.index = NoIndex THEN Done(st1, "OSError", None)
           ELSE Done([st1 EXCEPT !.index = RewriteIndex(st.index, h.sha1, file_path)],
                     "ok", None)

commit(st, message) ==
  IF message = "" THEN Done(st, "ValueError", None)
  ELSE IF st.index = NoIndex THEN Done(st, "nothing to commit", None)
  ELSE LET c == commit_objects(st.objects, TreeOfIndex(st.index),
                               get_head_commit(st.refs), st.clock, message)
       IN  Done([st EXCEPT !.objects = c.objects,
                           !.refs = update_ref(st.refs, HEAD, c.sha1),
                           !.clock = st.clock + 1],
                "ok", c.sha1)

branch(st, name) ==
  LET head_commit == get_head_commit(st.refs)
  IN  IF head_commit # None
      THEN Done([st EXCEPT !.refs = update_ref(st.refs, BranchRef(name), head_commit)],
                "ok", None)
      ELSE Done(st, "no commits yet", None)

\* ----------------------------------------------------------------- status

\* The bytes of the files under the metadata directory, as status reads
\* them: a reference file, the index file, an object file.
RefFile(content) == <<"ref", content>>

IndexFile(idx) == <<"index", idx>>

ObjectFile(full_data) == <<"object", full_data>>

\* hash_object(content, 'blob') for every content of a set of file contents.
RECURSIVE HashAll(_, _)
HashAll(objs, files) ==
  IF files = {} THEN objs
  ELSE LET f == CHOOSE x \in files : TRUE
       IN  HashAll(hash_object(objs, f, "blob").objects, files \ {f})

\* The walk of get_unstaged_changes: lines 859-865.  It starts at repo_path
\* and skips roots that contain '.fangs'; the metadata directory is
\* repo_path/fangs, so every file under it is hashed and stored as a blob
\* like the files of the working tree.  The walk is top-down: the working
\* files, HEAD and the index are hashed before fangs/objects is listed, so
\* the object files hashed are those there before the call and those the
\* walk has just stored; of the objects stored while fangs/objects is
\* walked, the set again happened to land in a directory still to be read.
hash_walk(st, again) ==
  LET top    == { st.wt[p] : p \in DOMAIN st.wt }
                  \cup { IndexFile(st.index) }
                  \cup { RefFile(st.refs[r]) : r \in DOMAIN st.refs }
      first  == HashAll(st.objects, top)
      second == HashAll(first, { ObjectFile(first[id]) : id \in DOMAIN first })
  IN  HashAll(second, { ObjectFile(second[id]) : id \in again })

\* The objects hash_walk stores while it walks fangs/objects.
StoredInWalk(st) == DOMAIN hash_walk(st, {}) \ DOMAIN HashAll(st.objects,
  { st.wt[p] : p \in DOMAIN st.wt } \cup { IndexFile(st.index) }
    \cup { RefFile(st.refs[r]) : r \in DOMAIN st.refs })

\* status.  Without an index file get_unstaged_changes returns the list of
\* get_untracked_files, which always holds fangs/HEAD, and status calls
\* .items() on it: lines 781-785, 849-850.
status(st, again) ==
  IF st.index = NoIndex THEN Done(st, "AttributeError", None)
  ELSE LET head      == get_head_commit(st.refs)
           head_tree == IF head = None THEN Ok(<<>>) ELSE get_tree(st.objects, head)
       IN  IF IsRaise(head_tree) THEN Done(st, head_tree[2], None)
           ELSE Done([st EXCEPT !.objects = hash_walk(st, again)], "ok", None)

\* ---------------------------------------------------------------- actions

Res(op, out, val) == [op |-> op, out |-> out, val |-> val]

\* The repository after an operation that ended as d.
Apply(d, op) ==
  /\ wt' = d.st.wt
  /\ index' = d.st.index
  /\ objects' = d.st.objects
  /\ refs' = d.st.refs
  /\ clock' = d.st.clock
  /\ result' = Res(op, d.out, d.val)

\* The repository right after init.  add opens the index file for reading
\* and never creates it, so a repository whose add can succeed is one whose
\* (empty) index file was put there from outside; both are initial states.
Init ==
  /\ wt = EmptyMap
  /\ index \in {NoIndex, <<>>}
  /\ objects = EmptyMap
  /\ refs = (HEAD :> SymRef(BranchRef("master")))
  /\ clock = 0
  /\ result = Res("init", "ok", None)
  /\ tB = <<>> /\ tC = <<>> /\ tO = <<>> /\ order = <<>> /\ merged = None
  /\ pc = "idle" /\ job = None /\ temp = NoIndex

\* The user writes a file of the working tree.
WriteFile ==
  \E p \in Paths, c \in Contents :
    /\ wt' = (p :> c) @@ wt
    /\ result' = Res("write", "ok", None)
    /\ UNCHANGED <<index, objects, refs, clock, mergeVars, stepVars>>

Add ==
  \E p \in Paths :
    LET d == add(Here, p)
    IN  /\ d.st.index = NoIndex \/ Len(d.st.index) <= MaxIndexLen
        /\ Apply(d, "add")
        /\ UNCHANGED <<mergeVars, stepVars>>

Commit ==
  \E message \in Messages :
    LET d == commit(Here, message)
    IN  /\ d.st.clock <= MaxCommits
        /\ Apply(d, "commit")
        /\ UNCHANGED <<mergeVars, stepVars>>

Branch ==
  \E name \in Branches :
    /\ Apply(branch(Here, name), "branch")
    /\ UNCHANGED <<mergeVars, stepVars>>

Checkout ==
  \E name \in Branches :
    /\ Apply(checkout(Here, name), "checkout")
    /\ UNCHANGED <<mergeVars, stepVars>>

Merge ==
  \E name \in Branches, pref \in Orders(Paths) :
    LET d == merge(Here, name, pref)
    IN  /\ d.st.clock <= MaxCommits
        /\ Apply(d, "merge")
        /\ UNCHANGED <<mergeVars, stepVars>>

Status ==
  \E again \in SUBSET (IF status(Here, {}).out = "ok" THEN StoredInWalk(Here) ELSE {}) :
    LET d == status(Here, again)
    IN  /\ Cardinality(DOMAIN d.st.objects) <= MaxObjects
        /\ Apply(d, "status")
        /\ UNCHANGED <<mergeVars, stepVars>>

Next ==
  \/ WriteFile
  \/ Add
  \/ Commit
  \/ Branch
  \/ Checkout
  \/ Merge

Spec == Init /\ [][Next]_vars

\* The commands of Spec and status.
NextAll ==
  \/ WriteFile
  \/ Add
  \/ Commit
  \/ Branch
  \/ Checkout
  \/ Merge
  \/ Status

SpecAll == Init /\ [][NextAll]_vars

\* ------------------------------------------- the three-way merge on its own

\* The id add stores for a file content.
BlobId(content) == hash_object(EmptyMap, content, "blob").sha1

PathSeq == << <<"a">>, <<"b", "c">> >>

\* The tree dict of an assignment f of a blob id or None to every path.
RECURSIVE DictOf(_, _)
DictOf(f, i) ==
  IF i > Len(PathSeq) THEN <<>>
  ELSE IF f[PathSeq[i]] = None THEN DictOf(f, i + 1)
  ELSE << <<PathSeq[i], f[PathSeq[i]]>> >> \o DictOf(f, i + 1)

\* Every tree over Paths whose files hold one of Contents.
TreeDicts ==
  { DictOf(f, 1) : f \in [Paths -> {BlobId(c) : c \in Contents} \cup {None}] }

\* A store holding the blobs of Contents.
RECURSIVE BlobStore(_, _)
BlobStore(objs, cs) ==
  IF cs = {} THEN objs
  ELSE LET c == CHOOSE x \in cs : TRUE
       IN  BlobStore(hash_object(objs, c, "blob").objects, cs \ {c})

\* master and feat have diverged from a base commit; their trees are the
\* inputs base_tree, current_tree and other_tree of the merge, drawn from
\* TreeDicts, and order is the order in which all_files is iterated.
InitMerge ==
  /\ tB \in TreeDicts
  /\ tC \in TreeDicts
  /\ tO \in TreeDicts
  /\ order \in Orders(Paths)
  /\ merged = None
  /\ LET B == commit_objects(BlobStore(EmptyMap, Contents), tB, None, 0, "m")
         C == commit_objects(B.objects, tC, B.sha1, 1, "m")
         O == commit_objects(C.objects, tO, B.sha1, 2, "m")
     IN  /\ objects = O.objects
         /\ refs = (HEAD :> SymRef(BranchRef("master")))
                    @@ (BranchRef("master") :> C.sha1)
                    @@ (BranchRef("feat") :> O.sha1)
  /\ wt = [p \in DictKeys(tC) |-> objects[DictGet(tC, p)][2]]
  /\ index = [i \in 1..Len(tC) |-> <<tC[i][2], tC[i][1]>>]
  /\ clock = 3
  /\ result = Res("init", "ok", None)
  /\ pc = "idle" /\ job = None /\ temp = NoIndex

\* merge feat, from the point where three_way_merge holds the three trees.
MergeTrees ==
  /\ merged = None
  /\ merged' = merge_loop(objects, tB, tC, tO, "feat", order)
  /\ Apply(merge_trees(Here, get_head_commit(refs), get_ref(refs, BranchRef("feat")),
                       tB, tC, tO, "feat", order), "merge")
  /\ UNCHANGED <<tB, tC, tO, order, stepVars>>

NextMerge == MergeTrees

SpecMerge == InitMerge /\ [][NextMerge]_vars

\* ------------------------------------------------- what the claims speak of

\* An id names its bytes; these read the stored record off the id itself,
\* without going through read_object.
KindOf(id) == id[2][1][1][1]

PayloadOf(id) == id[2][2]

\* What a reader of the given kind is to get back: the bytes of a blob, the
\* decoded dict of a tree or a commit.
DecodedOf(id) == IF KindOf(id) = "blob" THEN PayloadOf(id) ELSE json_loads(PayloadOf(id))

Commits(objs) == { id \in DOMAIN objs : KindOf(id) = "commit" }

\* The parents a commit records: 'parent' (None on a first commit) or 'parents'.
ParentsOf(id) ==
  LET d == DecodedOf(id)
  IN  IF "parents" \in DictKeys(d)
      THEN { DictGet(d, "parents")[i] : i \in 1..Len(DictGet(d, "parents")) }
      ELSE { DictGet(d, "parent") } \ {None}

RECURSIVE Ancestors(_)
Ancestors(id) == {id} \cup UNION { Ancestors(q) : q \in ParentsOf(id) }

\* The flat tree of a commit, and the working tree that holds exactly it.
TreeOf(id) == DecodedOf(DictGet(DecodedOf(id), "tree"))

FilesOf(tree) == [p \in DictKeys(tree) |-> PayloadOf(DictGet(tree, p))]

\* C1 (put/get round trip): every object hash_object has stored is read back
\* by read_object, with the kind it was stored under, as the payload stored.
C1_RoundTrip ==
  \A id \in DOMAIN objects :
    /\ hash_object(objects, PayloadOf(id), KindOf(id)).sha1 = id
    /\ read_object(objects, id, KindOf(id)) = Ok(DecodedOf(id))

\* C2 (commit advances the current branch): a commit that succeeds while
\* HEAD is symbolic to refs/heads/<b> leaves refs/heads/<b> holding the
\* returned id and leaves HEAD the same symbolic reference.
C2_CommitAdvancesBranch ==
  [][ \A message \in Messages :
        ( /\ IsSymbolic(refs[HEAD])
          /\ commit(Here, message).out = "ok"
          /\ Apply(commit(Here, message), "commit") )
        => ( /\ refs'[HEAD] = refs[HEAD]
             /\ refs[HEAD][2] \in DOMAIN refs'
             /\ refs'[refs[HEAD][2]] = result'.val ) ]_vars

\* The current commit C and the other commit O of merge <name>, when the
\* merge passes its preconditions (on a branch with a commit, <name> exists).
OnBranch == HEAD \in DOMAIN refs /\ get_current_branch(refs) # None

Mergeable(name) ==
  /\ OnBranch
  /\ get_head_commit(refs) # None
  /\ get_ref(refs, BranchRef(name)) # None

\* C3 (fast-forward): a merge whose base is the current commit C (C is a
\* proper ancestor of O) is a fast-forward: the current branch ref becomes
\* O, the working tree becomes tree(O), and no object is created.
C3_FastForward ==
  [][ \A name \in Branches, pref \in Orders(Paths) :
        ( /\ Mergeable(name)
          /\ get_head_commit(refs) # get_ref(refs, BranchRef(name))
          /\ get_head_commit(refs) \in Ancestors(get_ref(refs, BranchRef(name)))
          /\ Apply(merge(Here, name, pref), "merge") )
        => ( /\ result'.out = "fast-forward"
             /\ refs[HEAD][2] \in DOMAIN refs'
             /\ refs'[refs[HEAD][2]] = get_ref(refs, BranchRef(name))
             /\ wt' = FilesOf(TreeOf(get_ref(refs, BranchRef(name))))
             /\ objects' = objects ) ]_vars

\* C4 (already up to date): a merge whose base is the other commit O (O is
\* C or an ancestor of C) reports AlreadyUpToDate and changes neither HEAD,
\* nor a branch ref, nor the store, nor the index, nor the working tree.
C4_AlreadyUpToDate ==
  [][ \A name \in Branches, pref \in Orders(Paths) :
        ( /\ Mergeable(name)
          /\ get_ref(refs, BranchRef(name)) \in Ancestors(get_head_commit(refs))
          /\ Apply(merge(Here, name, pref), "merge") )
        => ( /\ result'.out = "up-to-date"
             /\ UNCHANGED <<wt, index, objects, refs>> ) ]_vars

\* C9 (merge-base identities): for every stored commit a and every ancestor
\* x of a, find_merge_base(a, a) = a, find_merge_base(a, x) = x and
\* find_merge_base(x, a) = x.
C9_MergeBaseIdentities ==
  \A a \in Commits(objects) :
    /\ find_merge_base(objects, a, a) = Ok(a)
    /\ \A x \in Ancestors(a) :
         /\ find_merge_base(objects, a, x) = Ok(x)
         /\ find_merge_base(objects, x, a) = Ok(x)

\* C10 (index uniqueness): after any sequence of adds, paths with spaces
\* included, no two rows of the index hold the same path.
C10_IndexUnique ==
  index # NoIndex =>
    \A i, j \in 1..Len(index) : i # j => index[i][2] # index[j][2]

\* ---------------------------------------------- the three-way merge claims

\* The ids of path p on base, current and other; None when p is missing.
SideB(p) == DictGet(tB, p)

SideC(p) == DictGet(tC, p)

SideO(p) == DictGet(tO, p)

\* The paths both sides changed, to different results.
ConflictPaths ==
  { p \in Paths : SideC(p) # SideO(p) /\ SideC(p) # SideB(p) /\ SideO(p) # SideB(p) }

\* The blob of the conflict markers around the two sides of p (an absent
\* side renders empty), labelled with the other branch.
ConflictId(p) ==
  BlobId(<<"conflict",
           IF SideC(p) # None THEN PayloadOf(SideC(p)) ELSE <<"raw", <<>> >>,
           IF SideO(p) # None THEN PayloadOf(SideO(p)) ELSE <<"raw", <<>> >>,
           "feat">>)

\* What the merge rule gives p: an id, or None for 'no entry'.
Expected(p) ==
  IF SideC(p) = SideO(p) THEN SideC(p)
  ELSE IF SideC(p) = SideB(p) THEN SideO(p)
  ELSE IF SideO(p) = SideB(p) THEN SideC(p)
  ELSE ConflictId(p)

ExpectedTree == [p \in { q \in Paths : Expected(q) # None } |-> Expected(p)]

ExpectedFiles == [p \in DOMAIN ExpectedTree |-> PayloadOf(ExpectedTree[p])]

AsMap(tree) == [p \in DictKeys(tree) |-> DictGet(tree, p)]

SeqSet(s) == { s[i] : i \in 1..Len(s) }

LoopDone == merged # None /\ ~IsRaise(merged)

\* C5 (merge rule per path): the merged tree the loop builds holds, for
\* every path, the id the rule gives and no entry where the side taken is
\* missing, and the conflicts list holds exactly the conflicting paths.
C5_MergeRule ==
  LoopDone =>
    /\ \A p \in Paths :
         IF Expected(p) = None THEN p \notin DictKeys(merged[2].tree)
         ELSE p \in DictKeys(merged[2].tree) /\ DictGet(merged[2].tree, p) = Expected(p)
    /\ SeqSet(merged[2].conflicts) = ConflictPaths

\* C6 (conflicts make no merge commit): when some path conflicts, the merge
\* stores no commit, leaves HEAD and the branch refs as they were, reports
\* exactly the conflicting paths and writes the merged tree, conflict blobs
\* included, to the working tree.
C6_ConflictNoCommit ==
  [][ (merged = None /\ merged' # None /\ ConflictPaths # {})
      => ( /\ result'.out = "conflicts"
           /\ SeqSet(result'.val) = ConflictPaths
           /\ refs' = refs
           /\ Commits(objects') = Commits(objects)
           /\ wt' = ExpectedFiles ) ]_vars

\* C7 (clean merge commits): when no path conflicts, the merge stores a
\* commit with parents [C, O], the merged tree and the message "Merge branch
\* '<other>'"; the current branch ref becomes its id, HEAD still names the
\* branch, and the working tree holds the merged tree.
C7_CleanMergeCommit ==
  [][ (merged = None /\ merged' # None /\ ConflictPaths = {})
      => ( /\ HEAD \in DOMAIN refs' /\ refs'[HEAD] = refs[HEAD]
           /\ refs[HEAD][2] \in DOMAIN refs'
           /\ refs'[refs[HEAD][2]] \in Commits(objects') \ DOMAIN objects
           /\ LET d == DecodedOf(refs'[refs[HEAD][2]])
              IN  /\ DictGet(d, "parents")
                       = <<get_head_commit(refs), get_ref(refs, BranchRef("feat"))>>
                  /\ AsMap(DecodedOf(DictGet(d, "tree"))) = ExpectedTree
                  /\ DictGet(d, "message") = <<"Merge branch", "feat">>
           /\ wt' = ExpectedFiles ) ]_vars

\* Exactly one of current and other differs from base at p.
OneSideChanged(p) == (SideC(p) # SideB(p)) # (SideO(p) # SideB(p))

\* The entry a finished loop left for p: <<"set", id>> or <<"skip">>.
EntryAt(m, p) ==
  IF p \in DictKeys(m[2].tree) THEN <<"set", DictGet(m[2].tree, p)>> ELSE <<"skip">>

\* C8 (merge symmetry): at every path where exactly one side differs from
\* base, merging (current, other) and merging (other, current) decide the
\* same entry, and two loops that both finish leave the same entry for it.
C8_MergeSymmetry ==
  LET store == BlobStore(EmptyMap, Contents)
      m1 == merge_loop(store, tB, tC, tO, "feat", order)
      m2 == merge_loop(store, tB, tO, tC, "master", order)
  IN  \A p \in Paths :
        OneSideChanged(p) =>
          /\ merge_entry(SideB(p), SideC(p), SideO(p))
               = merge_entry(SideB(p), SideO(p), SideC(p))
          /\ (~IsRaise(m1) /\ ~IsRaise(m2)) => EntryAt(m1, p) = EntryAt(m2, p)

\* A merge has run to the end of its loop over trees in which one side of a
\* path changed and the other did not, and the changed side was taken.
C8_Witness ==
  /\ LoopDone
  /\ \E p \in Paths :
       /\ OneSideChanged(p)
       /\ SideC(p) = SideB(p)
       /\ SideO(p) # None
       /\ DictGet(merged[2].tree, p) = SideO(p)

\* ------------------------------------------- a call, statement by statement

\* The two files of the index rewrite, fangs/index and fangs/index.temp.
Files(idx, tmp) == [index |-> idx, temp |-> tmp]

\* open(index_file, 'w'): the index itself is opened for writing and is
\* truncated.
open_index_in_place(idx) == Files(<<>>, <<>>)

\* open(index_file, 'r'), open(temp_index_file, 'w'): line 163.  The temp
\* file is created, or truncated when an earlier call left one behind.
open_index(idx) == Files(idx, <<>>)

\* The process is inside a call.
Running == pc \notin {"idle", "killed"}

\* The call returns or raises: the process is back at the prompt.
Return(op, out, val) ==
  /\ pc' = "idle"
  /\ job' = None
  /\ result' = Res(op, out, val)

\* add, lines 138-154: the file is looked up, read and stored as a blob.
AddStart ==
  /\ pc = "idle"
  /\ \E p \in Paths :
       IF p \notin DOMAIN wt
       THEN /\ Return("add", "FileNotFoundError", None)
            /\ UNCHANGED <<wt, index, objects, refs, clock, temp, mergeVars>>
       ELSE LET h == hash_object(objects, wt[p], "blob")
            IN  /\ IF index = NoIndex THEN TRUE
                   ELSE Len(RewriteIndex(index, h.sha1, p)) <= MaxIndexLen
                /\ objects' = h.objects
                /\ pc' = "open"
                /\ job' = [path |-> p, sha1 |-> h.sha1, old |-> index, i |-> 1, updated |-> FALSE]
                /\ UNCHANGED <<wt, index, refs, clock, result, temp, mergeVars>>

\* add, line 163: a missing index file raises, re-raised at lines 179-180.
AddOpen ==
  /\ pc = "open"
  /\ IF index = NoIndex
     THEN /\ Return("add", "OSError", None)
          /\ UNCHANGED <<wt, index, objects, refs, clock, temp, mergeVars>>
     ELSE /\ index' = open_index(index).index
          /\ temp' = open_index(index).temp
          /\ pc' = "copy"
          /\ UNCHANGED <<wt, objects, refs, clock, result, job, mergeVars>>

\* add, lines 164-170: one line of the old index goes to the temp file.
AddCopy ==
  /\ pc = "copy"
  /\ job.i <= Len(job.old)
  /\ LET row   == job.old[job.i]
         entry == <<job.sha1, job.path>>
         hit   == RowMatches(row, job.path)
     IN  /\ temp' = Append(temp, IF hit THEN entry ELSE row)
         /\ job' = [job EXCEPT !.i = @ + 1, !.updated = @ \/ hit]
  /\ UNCHANGED <<wt, index, objects, refs, clock, result, pc, mergeVars>>

\* add, lines 171-173 and the end of the with block.
AddTail ==
  /\ pc = "copy"
  /\ job.i > Len(job.old)
  /\ temp' = IF job.updated THEN temp ELSE Append(temp, <<job.sha1, job.path>>)
  /\ pc' = "replace"
  /\ UNCHANGED <<wt, index, objects, refs, clock, result, job, mergeVars>>

\* add, line 176: os.replace(temp_index_file, index_file).
AddReplace ==
  /\ pc = "replace"
  /\ index' = temp
  /\ temp' = NoIndex
  /\ pc' = "added"
  /\ UNCHANGED <<wt, objects, refs, clock, result, job, mergeVars>>

\* add, line 177.
AddReturn ==
  /\ pc = "added"
  /\ Return("add", "ok", None)
  /\ UNCHANGED <<wt, index, objects, refs, clock, temp, mergeVars>>

\* The process is killed inside a call: the files stay as they are.
Kill ==
  /\ Running
  /\ pc' = "killed"
  /\ UNCHANGED <<wt, index, objects, refs, clock, result, job, temp, mergeVars>>

\* The user is back at the prompt after a kill.
Restart ==
  /\ pc = "killed"
  /\ Return("kill", "killed", None)
  /\ UNCHANGED <<wt, index, objects, refs, clock, temp, mergeVars>>

NextSteps ==
  \/ WriteFile
  \/ AddStart
  \/ AddOpen
  \/ AddCopy
  \/ AddTail
  \/ AddReplace
  \/ AddReturn
  \/ Kill
  \/ Restart

SpecSteps == Init /\ [][NextSteps]_vars

\* ------------------------------------------------- staging and committing

\* C11 (first add on a fresh repository): an add of an existing file while no
\* index file exists succeeds and leaves an index of exactly one row, the
\* (blob id, path) of the added file.
C11_FirstAdd ==
  [][ \A p \in Paths :
        ( /\ index = NoIndex
          /\ p \in DOMAIN wt
          /\ Apply(add(Here, p), "add") )
        => ( /\ result'.out = "ok"
             /\ index' = << <<BlobId(wt[p]), p>> >> ) ]_vars

\* The index an add that got past opening it is to leave.
NewIndex == RewriteIndex(job.old, job.sha1, job.path)

\* C12 (atomic index update): a process killed at any statement of an add
\* that runs on an existing index leaves the file fangs/index with the
\* complete old content or the complete new content.
C12_AtomicIndex ==
  (pc = "killed" /\ job.old # NoIndex) => (index = job.old \/ index = NewIndex)

\* An add was killed while the temp file held part of the new content, on
\* an index that had rows; and an add was killed after the rename.
C12_Witness ==
  /\ pc = "killed"
  /\ job.old # NoIndex
  /\ \/ job.old # <<>> /\ temp # NoIndex /\ Len(temp) < Len(NewIndex)
     \/ temp = NoIndex /\ index = NewIndex /\ index # job.old

\* ----------------------------------------------------------------- checkout

\* C13 (checkout postcondition): a checkout of an existing branch b leaves
\* HEAD the symbolic reference to refs/heads/b and the working tree holding
\* exactly the paths of the tree of b's tip commit, each with its blob's
\* bytes.
C13_CheckoutPost ==
  [][ \A name \in Branches :
        ( /\ BranchRef(name) \in DOMAIN refs
          /\ Apply(checkout(Here, name), "checkout") )
        => ( /\ HEAD \in DOMAIN refs'
             /\ refs'[HEAD] = SymRef(BranchRef(name))
             /\ wt' = FilesOf(TreeOf(refs[BranchRef(name)])) ) ]_vars

\* The user writes content c to the file p, then stages and commits it.
Edit(st, p, c) == commit(add([st EXCEPT !.wt = (p :> c) @@ st.wt], p).st, "m")

\* From a state where the branches x and y exist: checkout x, commit an
\* edit of p, checkout y, commit another edit of p, then checkout x and
\* checkout y again.  tipX and tipY are the commits made on x and on y, backX
\* and backY the working trees the two last checkouts leave.
Switching(st, x, y, p) ==
  LET onX  == Edit(checkout(st, x).st, p, <<"raw", <<1>> >>)
      onY  == Edit(checkout(onX.st, y).st, p, <<"raw", <<2>> >>)
      back == checkout(onY.st, x)
      again == checkout(back.st, y)
  IN  [ ok    |-> onX.out = "ok" /\ onY.out = "ok",
        tipX  |-> onX.val, tipY |-> onY.val,
        backX |-> back.st.wt, backY |-> again.st.wt ]

\* C14 (checkout across branches): after a commit made while x was checked
\* out and a commit made while y was checked out, a later checkout x makes
\* the working tree the tree of the commit made on x, and a checkout y
\* after it makes it the tree of the commit made on y.
C14_CheckoutRestoresTips ==
  \A x, y \in Branches, p \in Paths :
    ( /\ x # y
      /\ BranchRef(x) \in DOMAIN refs
      /\ BranchRef(y) \in DOMAIN refs
      /\ Switching(Here, x, y, p).ok )
    => LET s == Switching(Here, x, y, p)
       IN  /\ s.backX = FilesOf(TreeOf(s.tipX))
           /\ s.backY = FilesOf(TreeOf(s.tipY))

\* ------------------------------------------------------------ object store

\* C15 (object integrity): in every state reached by completed calls of
\* add, commit, branch, checkout, merge and status, the bytes of every
\* object file hash to the id its path spells.
C15_ObjectIntegrity == \A id \in DOMAIN objects : sha1(objects[id]) = id

\* The store holds a commit, its tree, a blob add stored and a blob status
\* stored from an object file.
C15_Witness ==
  /\ \E id \in DOMAIN objects : KindOf(id) = "commit"
  /\ \E id \in DOMAIN objects : KindOf(id) = "tree"
  /\ \E id \in DOMAIN objects : KindOf(id) = "blob" /\ PayloadOf(id)[1] = "raw"
  /\ \E id \in DOMAIN objects : KindOf(id) = "blob" /\ PayloadOf(id)[1] = "object"

\* The tree id of the commit made after staging p and then q.
StagedTree(st, p, q) ==
  LET k == commit(add(add(st, p).st, q).st, "m")
  IN  [ok |-> k.out = "ok", tree |-> IF k.out = "ok" THEN DictGet(DecodedOf(k.val), "tree") ELSE None]

\* C16 (tree canonicality): staging p then q and staging q then p, when they
\* give the same mapping of paths to ids, give commits with the same tree id.
C16_TreeCanonical ==
  \A p, q \in Paths :
    LET pq == StagedTree(Here, p, q)
        qp == StagedTree(Here, q, p)
    IN  (pq.ok /\ qp.ok /\ AsMap(DecodedOf(pq.tree)) = AsMap(DecodedOf(qp.tree)))
        => pq.tree = qp.tree

\* C17 (nothing to commit): a commit with a non-empty message on a missing
\* or empty index reports that there is nothing to commit, stores no object
\* and leaves HEAD and every branch ref as they were.
C17_NothingToCommit ==
  [][ \A message \in Messages :
        ( /\ message # ""
          /\ IF index = NoIndex THEN TRUE ELSE index = <<>>
          /\ Apply(commit(Here, message), "commit") )
        => ( /\ result'.out = "nothing to commit"
             /\ objects' = objects
             /\ refs' = refs ) ]_vars

\* -------------------------------------------------------------------- merge

\* HEAD is not a symbolic reference to a branch.
Detached == IF HEAD \in DOMAIN refs THEN ~IsSymbolic(refs[HEAD]) ELSE TRUE

\* C18 (merge preconditions): a merge while HEAD is not symbolic to a branch
\* fails as detached, a merge of a branch whose ref does not exist fails as
\* unknown; both store no object and leave HEAD, the branch refs, the index
\* and the working tree as they were.
C18_MergePreconditions ==
  [][ \A name \in Branches, pref \in Orders(Paths) :
        Apply(merge(Here, name, pref), "merge")
        => /\ Detached
                => (result'.out = NotOnBranch /\ UNCHANGED <<wt, index, objects, refs>>)
           /\ (~Detached /\ BranchRef(name) \notin DOMAIN refs)
                => (result'.out = NoSuchBranch /\ UNCHANGED <<wt, index, objects, refs>>) ]_vars

\* A merge was refused on a detached HEAD that holds a commit.
C18_Witness ==
  /\ result.op = "merge"
  /\ result.out = NotOnBranch
  /\ Detached
  /\ refs[HEAD] \in DOMAIN objects

\* A merge of a branch that does not exist was refused while on a branch.
C18_WitnessUnknown ==
  /\ result.op = "merge"
  /\ result.out = NoSuchBranch
  /\ ~Detached
  /\ \E name \in Branches : BranchRef(name) \notin DOMAIN refs

\* ------------------------------ the writes of commit and merge, one by one

\* commit, lines 196-212: the message and the index are checked, the index
\* is read into the dict tree.
CommitStart ==
  /\ pc = "idle"
  /\ clock < MaxClock
  /\ \E message \in Messages :
       IF message = ""
       THEN /\ Return("commit", "ValueError", None)
            /\ UNCHANGED <<wt, index, objects, refs, clock, temp, mergeVars>>
       ELSE IF index = NoIndex
       THEN /\ Return("commit", "nothing to commit", None)
            /\ UNCHANGED <<wt, index, objects, refs, clock, temp, mergeVars>>
       ELSE /\ pc' = "commit tree"
            /\ job' = [message |-> message, tree |-> TreeOfIndex(index), sha1 |-> None]
            /\ UNCHANGED <<wt, index, objects, refs, clock, result, temp, mergeVars>>

\* commit, line 215: the tree object is stored.
CommitTree ==
  /\ pc = "commit tree"
  /\ objects' = hash_object(objects, json_dumps(job.tree), "tree").objects
  /\ pc' = "commit object"
  /\ UNCHANGED <<wt, index, refs, clock, result, job, temp, mergeVars>>

\* commit, lines 218-227: the commit object is stored.
CommitObject ==
  /\ pc = "commit object"
  /\ LET c == commit_objects(objects, job.tree, get_head_commit(refs), clock, job.message)
     IN  /\ objects' = c.objects
         /\ job' = [job EXCEPT !.sha1 = c.sha1]
  /\ clock' = clock + 1
  /\ pc' = "commit ref"
  /\ UNCHANGED <<wt, index, refs, result, temp, mergeVars>>

\* commit, line 230: update_ref('HEAD', commit_sha1).
CommitRef ==
  /\ pc = "commit ref"
  /\ refs' = update_ref(refs, HEAD, job.sha1)
  /\ pc' = "committed"
  /\ UNCHANGED <<wt, index, objects, clock, result, job, temp, mergeVars>>

\* commit, lines 232-233.
CommitReturn ==
  /\ pc = "committed"
  /\ Return("commit", "ok", job.sha1)
  /\ UNCHANGED <<wt, index, objects, refs, clock, temp, mergeVars>>

\* The objects create_merge_commit stores: lines 704-716.
merge_commit_objects(objs, merged_tree, current_commit, other_commit, now, branch_name) ==
  LET t    == hash_object(objs, json_dumps(merged_tree), "tree")
      data == << <<"tree", t.sha1>>,
                 <<"parents", <<current_commit, other_commit>> >>,
                 <<"author", "Simple Fangs User <user@example.com>">>,
                 <<"timestamp", now>>,
                 <<"message", <<"Merge branch", branch_name>> >> >>
  IN  hash_object(t.objects, json_dumps(data), "commit")

\* The current commit and the commit of feat have diverged, and tB, tC and
\* tO are the trees of a common ancestor and of the two.
TreesInHand ==
  /\ order # <<>>
  /\ merged = None
  /\ Mergeable("feat")
  /\ LET cur == get_head_commit(refs)
         oth == get_ref(refs, BranchRef("feat"))
     IN  /\ cur \notin Ancestors(oth)
         /\ oth \notin Ancestors(cur)
         /\ TreeOf(cur) = tC
         /\ TreeOf(oth) = tO
         /\ \E b \in Ancestors(cur) \cap Ancestors(oth) : TreeOf(b) = tB

\* three_way_merge from the point where it holds the three trees, lines
\* 647-677: the loop runs (it stores the conflict blobs), and conflicts go
\* to handle_merge_conflicts.
MergeStart ==
  /\ pc = "idle"
  /\ clock < MaxClock
  /\ TreesInHand
  /\ LET m == merge_loop(objects, tB, tC, tO, "feat", order)
     IN  /\ merged' = m
         /\ IF IsRaise(m)
            THEN /\ Return("merge", m[2], None)
                 /\ UNCHANGED <<wt, index, objects, refs, clock, temp>>
            ELSE IF m[2].conflicts # <<>>
            THEN LET d == handle_merge_conflicts([Here EXCEPT !.objects = m[2].objects],
                                                 m[2].conflicts, m[2].tree)
                 IN  Apply(d, "merge") /\ UNCHANGED <<pc, job, temp>>
            ELSE /\ objects' = m[2].objects
                 /\ pc' = "merge tree"
                 /\ job' = [tree |-> m[2].tree, current_commit |-> get_head_commit(refs),
                            other_commit |-> get_ref(refs, BranchRef("feat")),
                            branch_name |-> "feat", sha1 |-> None]
                 /\ UNCHANGED <<wt, index, refs, clock, result, temp>>
  /\ UNCHANGED <<tB, tC, tO, order>>

\* create_merge_commit, line 706: the merged tree is stored.
MergeTree ==
  /\ pc = "merge tree"
  /\ objects' = hash_object(objects, json_dumps(job.tree), "tree").objects
  /\ pc' = "merge object"
  /\ UNCHANGED <<wt, index, refs, clock, result, job, temp, mergeVars>>

\* create_merge_commit, lines 708-716: the merge commit is stored.
MergeObject ==
  /\ pc = "merge object"
  /\ LET c == merge_commit_objects(objects, job.tree, job.current_commit,
                                   job.other_commit, clock, job.branch_name)
     IN  /\ objects' = c.objects
         /\ job' = [job EXCEPT !.sha1 = c.sha1]
  /\ clock' = clock + 1
  /\ pc' = "merge ref"
  /\ UNCHANGED <<wt, index, refs, result, temp, mergeVars>>

\* create_merge_commit, line 718: update_ref('HEAD', merge_commit_sha).
MergeRef ==
  /\ pc = "merge ref"
  /\ refs' = update_ref(refs, HEAD, job.sha1)
  /\ pc' = "merge files"
  /\ UNCHANGED <<wt, index, objects, clock, result, job, temp, mergeVars>>

\* create_merge_commit, lines 719-721: update_working_directory, which
\* removes the metadata directory with the rest and so the temp file too.
MergeFiles ==
  /\ pc = "merge files"
  /\ LET u == update_working_directory(Here, job.tree)
     IN  /\ wt' = u.st.wt /\ index' = u.st.index /\ objects' = u.st.objects
         /\ refs' = u.st.refs
         /\ Return("merge", IF u.out = "ok" THEN "merged" ELSE u.out, job.sha1)
  /\ temp' = NoIndex
  /\ UNCHANGED <<clock, mergeVars>>

\* merge from the point where it has found the base to be the current
\* commit: line 568.
ForwardStart ==
  /\ pc = "idle"
  /\ \E name \in Branches :
       /\ Mergeable(name)
       /\ get_head_commit(refs) # get_ref(refs, BranchRef(name))
       /\ get_head_commit(refs) \in Ancestors(get_ref(refs, BranchRef(name)))
       /\ job' = [target |-> get_ref(refs, BranchRef(name)), branch_name |-> name]
  /\ pc' = "forward ref"
  /\ UNCHANGED <<wt, index, objects, refs, clock, result, temp, mergeVars>>

\* fast_forward_merge, line 627: update_ref('HEAD', target_commit).
ForwardRef ==
  /\ pc = "forward ref"
  /\ refs' = update_ref(refs, HEAD, job.target)
  /\ pc' = "forward files"
  /\ UNCHANGED <<wt, index, objects, clock, result, job, temp, mergeVars>>

\* fast_forward_merge, lines 628-630: the target's tree is read and written
\* to the working directory.
ForwardFiles ==
  /\ pc = "forward files"
  /\ LET tree == get_tree(objects, job.target)
     IN  IF IsRaise(tree)
         THEN /\ Return("merge", tree[2], None)
              /\ UNCHANGED <<wt, index, objects, refs, temp>>
         ELSE LET u == update_working_directory(Here, tree[2])
              IN  /\ wt' = u.st.wt /\ index' = u.st.index /\ objects' = u.st.objects
                  /\ refs' = u.st.refs
                  /\ temp' = NoIndex
                  /\ Return("merge", IF u.out = "ok" THEN "fast-forward" ELSE u.out, None)
  /\ UNCHANGED <<clock, mergeVars>>

\* feat is ahead of master: commit B, branch master, commit O on top of it,
\* branch feat, checkout master (which rewrites HEAD and leaves the files of
\* O in place).
InitForward ==
  /\ tB \in TreeDicts
  /\ tC = tB
  /\ tO \in TreeDicts
  /\ order = <<>>
  /\ merged = None
  /\ LET B == commit_objects(BlobStore(EmptyMap, Contents), tB, None, 0, "m")
         O == commit_objects(B.objects, tO, B.sha1, 1, "m")
     IN  /\ objects = O.objects
         /\ refs = (HEAD :> SymRef(BranchRef("master")))
                    @@ (BranchRef("master") :> B.sha1)
                    @@ (BranchRef("feat") :> O.sha1)
  /\ wt = [p \in DictKeys(tO) |-> objects[DictGet(tO, p)][2]]
  /\ index = [i \in 1..Len(tO) |-> <<tO[i][2], tO[i][1]>>]
  /\ clock = 2
  /\ result = Res("init", "ok", None)
  /\ pc = "idle" /\ job = None /\ temp = NoIndex

\* A fresh repository, one on which master and feat have diverged, or one
\* on which feat is ahead of master.
InitWrites == Init \/ InitMerge \/ InitForward

NextWrites ==
  \/ CommitStart
  \/ CommitTree
  \/ CommitObject
  \/ CommitRef
  \/ CommitReturn
  \/ MergeStart
  \/ MergeTree
  \/ MergeObject
  \/ MergeRef
  \/ MergeFiles
  \/ ForwardStart
  \/ ForwardRef
  \/ ForwardFiles
  \/ Kill
  \/ Restart

SpecWrites == InitWrites /\ [][NextWrites]_vars

\* The commit id and the tree it names are in the store.
Stored(objs, id) ==
  /\ id \in DOMAIN objs
  /\ KindOf(id) = "commit"
  /\ DictGet(DecodedOf(id), "tree") \in DOMAIN objs

\* C19 (write ordering): inside commit and inside merge (fast-forward and
\* merge commit), a step that writes an id into a reference finds the commit
\* and its tree already in the store, and after every step every reference
\* that holds an id holds one whose commit and tree are in the store.
C19_WriteOrdering ==
  [][ \A r \in DOMAIN refs' :
        ~IsSymbolic(refs'[r]) =>
          /\ Stored(objects', refs'[r])
          /\ (IF r \in DOMAIN refs THEN refs[r] # refs'[r] ELSE TRUE)
               => Stored(objects, refs'[r]) ]_vars

\* HEAD was just moved to a new commit by commit, to a new merge commit by
\* create_merge_commit, or to the target by fast_forward_merge.
C19_Witness ==
  /\ pc \in {"committed", "merge files", "forward files"}
  /\ ~IsSymbolic(refs[HEAD])
  /\ refs[HEAD] \in DOMAIN objects

\* The three positions, each on its own.
C19_WitnessCommit == C19_Witness /\ pc = "committed"

C19_WitnessMerge == C19_Witness /\ pc = "merge files"

C19_WitnessForward == C19_Witness /\ pc = "forward files"

\* ------------------------------------------------------------ merge base

\* The loop of find_merge_base over the two chains: lines 588-594.
first_common(chain1, chain2) ==
  LET common == { i \in 1..Len(chain1) : InChain(chain2, chain1[i]) }
  IN  IF common = {} THEN None
      ELSE chain1[CHOOSE i \in common : \A j \in common : i <= j]

\* n commits of the tree, one on top of the other, the first on parent, the
\* clock starting at now: what n calls of commit store.  ids is oldest first.
RECURSIVE Chain(_, _, _, _, _)
Chain(objs, parent, tree, now, n) ==
  IF n = 0 THEN [objects |-> objs, ids |-> <<>>]
  ELSE LET c    == commit_objects(objs, tree, parent, now, "m")
           rest == Chain(c.objects, c.sha1, tree, now + 1, n - 1)
       IN  [objects |-> rest.objects, ids |-> <<c.sha1>> \o rest.ids]

\* Two single-parent histories that share their first k commits and then
\* diverge: commit1 is i commits past the fork, commit2 is j commits past
\* it.  find_merge_base(commit1, commit2) is about to be called; chain1 and
\* chain2 are the lists get_commit_chain is to build, oldest first.
InitBase ==
  \E k \in 1..MaxPrefix, i \in 1..MaxTail, j \in 1..MaxTail, tree \in TreeDicts :
    LET trunk == Chain(BlobStore(EmptyMap, Contents), None, tree, 0, k)
        one   == Chain(trunk.objects, trunk.ids[k], tree, k, i)
        two   == Chain(one.objects, trunk.ids[k], tree, k + i, j)
    IN  /\ objects = two.objects
        /\ job = [commit1 |-> one.ids[i], commit2 |-> two.ids[j], fork |-> trunk.ids[k],
                  chain1 |-> trunk.ids \o one.ids, chain2 |-> trunk.ids \o two.ids]
        /\ refs = (HEAD :> two.ids[j]) @@ (BranchRef("master") :> one.ids[i])
                   @@ (BranchRef("feat") :> two.ids[j])
        /\ wt = [p \in DictKeys(tree) |-> objects[DictGet(tree, p)][2]]
        /\ index = [n \in 1..Len(tree) |-> <<tree[n][2], tree[n][1]>>]
        /\ clock = k + i + j
        /\ result = Res("init", "ok", None)
        /\ pc = "call" /\ temp = NoIndex
        /\ tB = <<>> /\ tC = <<>> /\ tO = <<>> /\ order = <<>> /\ merged = None

\* find_merge_base(commit1, commit2), as merge calls it: line 562.
BaseCall ==
  /\ pc = "call"
  /\ LET r == find_merge_base(objects, job.commit1, job.commit2)
     IN  result' = IF IsRaise(r) THEN Res("find_merge_base", r[2], None)
                   ELSE Res("find_merge_base", "ok", r[2])
  /\ pc' = "called"
  /\ UNCHANGED <<wt, index, objects, refs, clock, job, temp, mergeVars>>

\* find_merge_base from the point where it holds the two chains: lines
\* 588-594.
BaseLoop ==
  /\ pc = "call"
  /\ result' = Res("find_merge_base", "ok", first_common(job.chain1, job.chain2))
  /\ pc' = "looped"
  /\ UNCHANGED <<wt, index, objects, refs, clock, job, temp, mergeVars>>

NextBase ==
  \/ BaseCall
  \/ BaseLoop

SpecBase == InitBase /\ [][NextBase]_vars

\* C20 (merge base on linear histories): for two commits whose single-parent
\* chains diverge from the fork, the most recent commit on both chains,
\* find_merge_base returns the fork.
C20_MergeBaseIsFork ==
  pc \in {"called", "looped"} => (result.out = "ok" /\ result.val = job.fork)

\* The same for the call alone and for the loop alone.
C20_Call == pc = "called" => (result.out = "ok" /\ result.val = job.fork)

C20_Loop == pc = "looped" => (result.out = "ok" /\ result.val = job.fork)

\* ------------------------------------------------------------ history walk

\* The loop of get_commit_chain on commits that read_object hands back
\* decoded: lines 609-613, newest first.  commit_data.get('parent') is None
\* on a commit that records 'parents'.
RECURSIVE parent_walk(_)
parent_walk(current) ==
  IF current = None THEN <<>>
  ELSE <<current>> \o parent_walk(DictGet(DecodedOf(current), "parent"))

\* The stored commits that record two parents.
MergeCommits(objs) == { id \in Commits(objs) : "parents" \in DictKeys(DecodedOf(id)) }

NoRepeat(s) == \A i, j \in 1..Len(s) : i # j => s[i] # s[j]

\* C21 (the history walk follows both parents): for a stored merge commit M
\* with parents [C, O], get_commit_chain(M) yields M, C, O and every
\* ancestor of C and of O, each id once.
C21_WalkBothParents ==
  \A M \in MergeCommits(objects) :
    LET chain == get_commit_chain(objects, M)
    IN  /\ ~IsRaise(chain)
        /\ SeqSet(chain[2]) = Ancestors(M)
        /\ NoRepeat(chain[2])

\* The same for the loop alone, every read taken to succeed.
C21_Loop ==
  \A M \in MergeCommits(objects) :
    /\ SeqSet(parent_walk(M)) = Ancestors(M)
    /\ NoRepeat(parent_walk(M))

\* ------------------------------------------------- the metadata directory

\* The steps that run update_working_directory: lines 630 and 721.
Materializing == pc \in {"merge files", "forward files"}

\* Every object of the first store is in the second with the same bytes.
ObjectsKept(before, after) ==
  \A id \in DOMAIN before : id \in DOMAIN after /\ after[id] = before[id]

\* C22 (materialization never touches the metadata directory): no step
\* deletes or changes a stored object, and a step that runs
\* update_working_directory leaves HEAD, every ref and the index as they were.
C22_MetadataKept ==
  [][ /\ ObjectsKept(objects, objects')
      /\ Materializing => (refs' = refs /\ index' = index) ]_vars

\* ----------------------------------------------------------------- closure

Trees(objs) == { id \in DOMAIN objs : KindOf(id) = "tree" }

\* Every id a direct reference holds, every tree and parent id a stored commit
\* records and every id a stored tree records names a stored object.
Closed(objs, rs) ==
  /\ \A r \in DOMAIN rs : ~IsSymbolic(rs[r]) => rs[r] \in DOMAIN objs
  /\ \A c \in Commits(objs) :
        /\ DictGet(DecodedOf(c), "tree") \in DOMAIN objs
        /\ ParentsOf(c) \subseteq DOMAIN objs
  /\ \A t \in Trees(objs) :
        \A p \in DictKeys(DecodedOf(t)) :
          /\ DictGet(DecodedOf(t), p) # None
          /\ DictGet(DecodedOf(t), p) \in DOMAIN objs

\* C23 (closure): between operations every id recorded in a direct ref, a
\* stored commit or a stored tree names a stored object, and no stored tree
\* maps a path to a null id.
C23_Closure == pc = "idle" => Closed(objects, refs)

\* C23 (closure, on the write paths): a write of commit or of merge that
\* finds the store and the refs closed leaves them closed; in particular it
\* stores no tree that maps a path to a null id.
C23_ClosedWrites ==
  [][ (Running /\ Closed(objects, refs)) => Closed(objects', refs') ]_vars

\* -------------------------------------------------------- failure and refs

\* The ways the three commands end well.
Succeeded(out) ==
  out \in {"ok", "switched", "up-to-date", "fast-forward", "merged", "conflicts"}

\* C24 (failure leaves refs unchanged): a checkout of an existing branch that
\* fails after it has started leaves HEAD with the content it had, and a
\* commit or a merge that fails leaves HEAD and every branch ref as they were.
C24_FailureKeepsRefs ==
  /\ \A name \in Branches :
        LET d == checkout(Here, name)
        IN  (BranchRef(name) \in DOMAIN refs /\ ~Succeeded(d.out))
              => (HEAD \in DOMAIN d.st.refs /\ d.st.refs[HEAD] = refs[HEAD])
  /\ \A message \in Messages :
        LET d == commit(Here, message)
        IN  ~Succeeded(d.out) => d.st.refs = refs
  /\ \A name \in Branches, pref \in Orders(Paths) :
        LET d == merge(Here, name, pref)
        IN  ~Succeeded(d.out) => d.st.refs = refs

\* The same for fast_forward_merge, called where merge calls it: the branch's
\* commit is ahead of the current one.
C24_FastForward ==
  \A name \in Branches :
    (/\ pc = "idle" /\ Mergeable(name)
     /\ get_head_commit(refs) # get_ref(refs, BranchRef(name))
     /\ get_head_commit(refs) \in Ancestors(get_ref(refs, BranchRef(name))))
      => LET d == fast_forward_merge(Here, get_ref(refs, BranchRef(name)), name)
         IN  ~Succeeded(d.out) => d.st.refs = refs

\* ------------------------------------------------ the index after a merge

\* The tree a commit made now, with no add before it, records; None where
\* commit does not make one.
TreeCommittedNow ==
  LET d == commit(Here, "m")
  IN  IF d.out = "ok" THEN AsMap(TreeOf(d.val)) ELSE None

\* C25 (the index follows checkout and merge): after a merge that
\* materialized a tree the index holds the entries of that tree, and a commit
\* made at once records that tree.
C25_IndexFollows ==
  (result.op = "merge" /\ result.out \in {"merged", "conflicts"})
    => IF index = NoIndex THEN FALSE
       ELSE /\ AsMap(TreeOfIndex(index)) = AsMap(merged[2].tree)
            /\ TreeCommittedNow = AsMap(merged[2].tree)

\* ------------------------------------------- hash_object, a write at a time

\* The data and kinds hash_object is called with here.
HashInputs ==
  { <<c, "blob">> : c \in Contents } \cup { << <<"json", <<>> >>, "tree">> }

\* A file that open(path, 'wb') has created and nothing was written to.
NoBytes == <<>>

\* hash_object, lines 87-94: header, id and path.
HashStart ==
  /\ pc = "idle"
  /\ \E in \in HashInputs :
       job' = [full_data |-> FullData(in[1], in[2]),
               sha1 |-> sha1(FullData(in[1], in[2]))]
  /\ pc' = "hash exists"
  /\ UNCHANGED <<wt, index, objects, refs, clock, result, temp, mergeVars>>

\* Line 97: the object is written only if its path does not exist.
HashExists ==
  /\ pc = "hash exists"
  /\ pc' = IF job.sha1 \in DOMAIN objects THEN "hash return" ELSE "hash open"
  /\ UNCHANGED <<wt, index, objects, refs, clock, result, job, temp, mergeVars>>

\* Lines 99-101: open(path, 'wb') creates the file at the final path, empty.
HashOpen ==
  /\ pc = "hash open"
  /\ objects' = (job.sha1 :> NoBytes) @@ objects
  /\ pc' = "hash write"
  /\ UNCHANGED <<wt, index, refs, clock, result, job, temp, mergeVars>>

\* Line 102 and the end of the with block: the bytes reach the file.
HashWrite ==
  /\ pc = "hash write"
  /\ objects' = [objects EXCEPT ![job.sha1] = job.full_data]
  /\ pc' = "hash return"
  /\ UNCHANGED <<wt, index, refs, clock, result, job, temp, mergeVars>>

\* Line 108.
HashReturn ==
  /\ pc = "hash return"
  /\ Return("hash_object", "ok", job.sha1)
  /\ UNCHANGED <<wt, index, objects, refs, clock, temp, mergeVars>>

NextObject ==
  \/ HashStart
  \/ HashExists
  \/ HashOpen
  \/ HashWrite
  \/ HashReturn
  \/ Kill
  \/ Restart

SpecObject == Init /\ [][NextObject]_vars

\* C26 (crash-safe object writes): after a kill at any step of hash_object,
\* and after any later hash_object of the same content, every file at an
\* object's final path holds the complete bytes its id names.
C26_CrashSafeObjects ==
  pc \in {"killed", "idle"} => \A id \in DOMAIN objects : sha1(objects[id]) = id

\* The same for the object a finished hash_object has just returned the id of.
C26_ReturnedObject ==
  (pc = "idle" /\ result.op = "hash_object")
    => (result.val \in DOMAIN objects /\ sha1(objects[result.val]) = result.val)

\* ---------------------------------------- reference writes, a write at a time

\* The commit ids the reference writes are made with here.
RefIds == { commit_objects(EmptyMap, <<>>, None, t, "m").sha1 : t \in 0..(MaxCommits - 1) }

\* A reference file that open(ref_file, 'w') has truncated and nothing was
\* written to.
EmptyRef == <<"">>

\* What the file of a reference holds, None where there is no file.
RefContent(rs, ref) == IF ref \in DOMAIN rs THEN rs[ref] ELSE None

\* The call has reached a reference write: which file, what it held, what is
\* to be written.
RefJob(op, ref, content) ==
  [op |-> op, ref |-> ref, old |-> RefContent(refs, ref), new |-> content]

\* commit and merge reach update_ref('HEAD', sha1): lines 230, 627, 718.
RefStartHead ==
  /\ pc = "idle"
  /\ \E id \in RefIds, op \in {"commit", "merge"} : job' = RefJob(op, HEAD, id)
  /\ pc' = "ref open"
  /\ UNCHANGED <<wt, index, objects, refs, clock, result, temp, mergeVars>>

\* branch reaches update_ref('refs/heads/<name>', head_commit): lines 430-434.
RefStartBranch ==
  /\ pc = "idle"
  /\ get_head_commit(refs) \in RefIds
  /\ \E name \in Branches :
       job' = RefJob("branch", BranchRef(name), get_head_commit(refs))
  /\ pc' = "ref open"
  /\ UNCHANGED <<wt, index, objects, refs, clock, result, temp, mergeVars>>

\* checkout of an existing branch reaches its write of HEAD: lines 484-490.
RefStartCheckout ==
  /\ pc = "idle"
  /\ \E name \in Branches :
       /\ BranchRef(name) \in DOMAIN refs
       /\ job' = RefJob("checkout", HEAD, SymRef(BranchRef(name)))
  /\ pc' = "ref open"
  /\ UNCHANGED <<wt, index, objects, refs, clock, result, temp, mergeVars>>

\* open(ref_file, 'w'), lines 311 and 490: the file is created or truncated.
RefOpen ==
  /\ pc = "ref open"
  /\ refs' = update_ref(refs, job.ref, EmptyRef)
  /\ pc' = "ref write"
  /\ UNCHANGED <<wt, index, objects, clock, result, job, temp, mergeVars>>

\* f.write and the end of the with block, lines 312 and 491.
RefWrite ==
  /\ pc = "ref write"
  /\ refs' = update_ref(refs, job.ref, job.new)
  /\ pc' = "ref written"
  /\ UNCHANGED <<wt, index, objects, clock, result, job, temp, mergeVars>>

\* The rest of the call is left out: the process is back at the prompt.
RefReturn ==
  /\ pc = "ref written"
  /\ Return(job.op, "ok", None)
  /\ UNCHANGED <<wt, index, objects, refs, clock, temp, mergeVars>>

NextRefs ==
  \/ RefStartHead
  \/ RefStartBranch
  \/ RefStartCheckout
  \/ RefOpen
  \/ RefWrite
  \/ RefReturn
  \/ Kill
  \/ Restart

SpecRefs == Init /\ [][NextRefs]_vars

\* C27 (crash-safe reference writes): after a kill at any step of a
\* reference write the reference file holds its complete old content (or is
\* absent as before) or its complete new content.
C27_CrashSafeRefs ==
  pc = "killed" => RefContent(refs, job.ref) \in {job.old, job.new}

\* ------------------------------------------------------ resolving references

\* The frames a recursion is given before the interpreter raises
\* RecursionError.  The interpreter's own limit is a thousand frames; the
\* count here is scaled down and stays above the length of every chain
\* without a cycle on the names of RefNames, so it is reached by cycles only.
RecursionLimit == 16

\* What stops a recursion that does not end: the interpreter's frame limit
\* (RecursionError, which no clause of get_ref catches) or, every frame
\* holding its reference file open, the limit on open files (an OSError,
\* which the except clause at line 281 catches: the call returns None).
Exhaustions == {"RecursionError", "OSError"}

\* get_ref with its frames counted: lines 266-284.
RECURSIVE get_ref_frames(_, _, _, _)
get_ref_frames(rs, ref, depth, exhaustion) ==
  IF depth > RecursionLimit
  THEN IF exhaustion = "OSError" THEN Ok(None) ELSE Raise(exhaustion)
  ELSE IF ref \in DOMAIN rs
  THEN IF IsSymbolic(rs[ref])
       THEN get_ref_frames(rs, rs[ref][2], depth + 1, exhaustion)
       ELSE Ok(rs[ref])
  ELSE Ok(None)

RefNames == {HEAD} \cup { BranchRef(name) : name \in Branches }

\* Every reference store on the three names: each file absent, an id or
\* symbolic to one of the names.
InitResolve ==
  /\ \E present \in SUBSET RefNames :
       refs \in [present -> RefIds \cup { SymRef(r) : r \in RefNames }]
  /\ wt = EmptyMap /\ index = NoIndex /\ objects = EmptyMap /\ clock = 0
  /\ result = Res("init", "ok", None)
  /\ tB = <<>> /\ tC = <<>> /\ tO = <<>> /\ order = <<>> /\ merged = None
  /\ pc = "idle" /\ job = None /\ temp = NoIndex

\* One call of get_ref.
Resolve ==
  /\ pc = "idle"
  /\ \E ref \in RefNames, exhaustion \in Exhaustions :
       LET r == get_ref_frames(refs, ref, 1, exhaustion)
       IN  /\ job' = [ref |-> ref]
           /\ result' = IF IsRaise(r) THEN Res("get_ref", r[2], None)
                                      ELSE Res("get_ref", "ok", r[2])
  /\ UNCHANGED <<wt, index, objects, refs, clock, pc, temp, mergeVars>>

NextResolve == Resolve

SpecResolve == InitResolve /\ [][NextResolve]_vars

\* The reference n symbolic hops after ref, None once the chain has ended.
RECURSIVE Hops(_, _, _)
Hops(rs, ref, n) ==
  IF n = 0 THEN ref
  ELSE IF ref = None \/ ref \notin DOMAIN rs THEN None
  ELSE IF IsSymbolic(rs[ref]) THEN Hops(rs, rs[ref][2], n - 1)
  ELSE None

\* The symbolic chain from ref comes back to a name it has visited.
Cyclic(rs, ref) == Hops(rs, ref, Cardinality(RefNames)) # None

\* C28 (bounded reference resolution): get_ref returns an id, or Unborn
\* (None) when the chain ends at a missing reference, and ends with
\* CycleError when the symbolic chain contains a cycle.
C28_BoundedResolution ==
  result.op = "get_ref"
    => IF Cyclic(refs, job.ref)
       THEN result.out = "CycleError"
       ELSE result.out = "ok" /\ result.val \in RefIds \cup {None}

\* The part of C28 about chains without a cycle, where the counted get_ref
\* is the get_ref of the other specifications.
C28_Acyclic ==
  (result.op = "get_ref" /\ ~Cyclic(refs, job.ref))
    => /\ result.out = "ok" /\ result.val \in RefIds \cup {None}
       /\ result.val = get_ref(refs, job.ref)

\* --------------------------------------------------------------------- init

\* os.path.exists(FANGS_DIR), line 47.  The directory is made by init, and by
\* the makedirs of hash_object and update_ref where init has not run; it is
\* removed, with all its files, by update_working_directory only.  So it
\* exists exactly when one of its files does.
RepoExists(st) ==
  DOMAIN st.refs # {} \/ DOMAIN st.objects # {} \/ st.index # NoIndex

\* init writing HEAD whether or not the directory exists.
init_always(st) ==
  Done([st EXCEPT !.refs = (HEAD :> SymRef(BranchRef("master"))) @@ st.refs],
       "initialized", None)

\* init: lines 47-63.
init(st) ==
  IF RepoExists(st) THEN Done(st, "already exists", None)
  ELSE Done([st EXCEPT !.refs = (HEAD :> SymRef(BranchRef("master"))) @@ st.refs],
            "initialized", None)

\* A directory in which init has not run.
NoRepository ==
  /\ wt = EmptyMap /\ index = NoIndex /\ objects = EmptyMap /\ refs = EmptyMap
  /\ clock = 0
  /\ result = Res("none", "ok", None)
  /\ tB = <<>> /\ tC = <<>> /\ tO = <<>> /\ order = <<>> /\ merged = None
  /\ pc = "idle" /\ job = None /\ temp = NoIndex

InitCommand ==
  /\ Apply(init(Here), "init")
  /\ UNCHANGED <<mergeVars, stepVars>>

NextInit ==
  \/ WriteFile
  \/ Add
  \/ Commit
  \/ Branch
  \/ Checkout
  \/ Merge
  \/ InitCommand

SpecInit == (Init \/ NoRepository) /\ [][NextInit]_vars

\* C29 (re-init is a no-op): an init called where the metadata directory
\* exists leaves HEAD, every ref, the index, every stored object and the
\* working tree as they were.
C29_ReinitNoOp ==
  [][ (result'.op = "init" /\ RepoExists(Here))
      => (refs' = refs /\ index' = index /\ objects' = objects /\ wt' = wt) ]_vars

\* An init has run on a repository with a commit, a second branch, a staged
\* file and a HEAD that no longer holds what init writes.
C29_Witness ==
  /\ result = Res("init", "already exists", None)
  /\ HEAD \in DOMAIN refs /\ refs[HEAD] # SymRef(BranchRef("master"))
  /\ BranchRef("feat") \in DOMAIN refs
  /\ DOMAIN objects # {}
  /\ index # NoIndex /\ index # <<>>

====
